---------------------------- MODULE Spec2Model ----------------------------
(***************************************************************************)
(* Stateless bearer-token authentication of the MERN social network:       *)
(* the auth middleware (middleware/auth.js), the token issuance of the     *)
(* registration route, the protected routes that consume req.user and the  *)
(* client's auth reducer.                                                  *)
(*                                                                         *)
(* A token is modelled symbolically: its payload {user, iat, exp} and the  *)
(* integrity tag, which is the HMAC of that payload under a key.  The tag  *)
(* is the pair (signed payload, key): two tags are equal exactly when the  *)
(* payload and the key are equal (an ideal MAC).                           *)
(***************************************************************************)
EXTENDS Integers, Sequences, FiniteSets, TLC

(* ------------------------------ bounds -------------------------------- *)
\* registrations happen in the seconds 0..MaxEarly of a run; the clock visits
\* these instants and the ones around the expiry of the tokens issued in them
MaxEarly == 1

(* ---------------------------- constants ------------------------------- *)
\* { expiresIn: 360000 }: lifetime of a token, in seconds
ExpiresIn == 360000

\* values config.get('jwtSecret') can have over the life of the deployment
Secrets == {"s1", "s2"}
\* a key that is not the server's, used by a client to sign its own token
ForeignKey == "k_client"
\* ids the identity store gives to new users, in order; 0 stands for no user
Ids == {1, 2}
NoUser == 0
\* request contexts the server can have in flight at the same time
Requests == {"r1", "r2"}
\* the request context of a server that takes one request at a time
Solo == {"r1"}
\* instants of the clock, in seconds
Instants == (0..MaxEarly) \cup {ExpiresIn + d : d \in (0 - 1)..(MaxEarly + 1)}

Routes == {"GET api/auth", "DELETE api/profile"}

MsgNoToken == "No token, authorisation denied"
MsgInvalid == "Token is not valid"

VARIABLES
    now,          \* the server clock, in seconds
    jwtSecret,    \* config.get('jwtSecret')
    issued,       \* every issuance so far: the user id and the token returned for it
    users,        \* the User collection (ids)
    nextUser,     \* the id the store gives to the next user it saves
    profiles,     \* the Profile collection: number of profile documents per user id
    dbUp,         \* whether the identity store answers
    req,          \* per request: the request context and the response
    state,        \* the client's auth slice of the Redux store
    localStorage, \* the client's localStorage 'token' entry
    msec,         \* the milliseconds of Date.now() within the second now
    reg,          \* the request to POST api/users in flight, and its response
    emailOf,      \* the User collection: the email of each user id
    posts,        \* the Post collection, newest first
    nextId,       \* the next ObjectId the store gives to a post or a comment
    experience,   \* the Profile collection: the experience array per user id
    alerts,       \* the client's alert slice of the Redux store
    app,          \* the App module and component: its calls, renders and effect
    dispatched    \* the actions dispatched to alertReducer so far, in order

vars == <<now, jwtSecret, issued, users, nextUser, profiles, dbUp, req, state,
          localStorage, msec, reg, emailOf, posts, nextId, experience, alerts, app,
          dispatched>>
server == <<now, jwtSecret, issued, users, nextUser, profiles, dbUp>>
client == <<state, localStorage, alerts, app, dispatched>>
issuer == <<msec, reg, emailOf>>
social == <<posts, nextId, experience>>

(* ------------------------------ tokens -------------------------------- *)
NoTag == [user |-> NoUser, iat |-> 0, exp |-> 0, key |-> "-"]
\* x-auth-token header not sent: req.header() returns undefined
Absent == [kind |-> "absent", user |-> NoUser, iat |-> 0, exp |-> 0, tag |-> NoTag]
\* x-auth-token: ""
Empty == [kind |-> "empty", user |-> NoUser, iat |-> 0, exp |-> 0, tag |-> NoTag]
\* a non-empty string that is no JWT
Garbage == [kind |-> "garbage", user |-> NoUser, iat |-> 0, exp |-> 0, tag |-> NoTag]

\* HMAC of the payload under key
Tag(user, iat, exp, key) == [user |-> user, iat |-> iat, exp |-> exp, key |-> key]

\* variant: expiresIn is given as the string "360000", which jwt.sign reads as
\* milliseconds
jwtSign_Millis(id, key, expiresIn, t) ==
    [kind |-> "jwt", user |-> id, iat |-> t, exp |-> t + expiresIn \div 1000,
     tag |-> Tag(id, t, t + expiresIn \div 1000, key)]

\* variant: the payload is given a fixed iat, which jwt.sign keeps
jwtSign_FixedIat(id, key, expiresIn, t) ==
    [kind |-> "jwt", user |-> id, iat |-> 0, exp |-> expiresIn,
     tag |-> Tag(id, 0, expiresIn, key)]

\* jwt.sign({user: {id}}, key, {expiresIn}) at time t: iat = t, exp = t + expiresIn
jwtSign(id, key, expiresIn, t) ==
    [kind |-> "jwt", user |-> id, iat |-> t, exp |-> t + expiresIn,
     tag |-> Tag(id, t, t + expiresIn, key)]


\* what a holder of token t can make of it without the server's key: the same
\* tag over a changed claim or changed timestamps
Tampered(t) ==
    {[t EXCEPT !.user = u] : u \in Ids \ {t.user}}
    \cup {[t EXCEPT !.exp = t.exp + d] : d \in {1, ExpiresIn}}
    \cup {[t EXCEPT !.iat = t.iat + 1]}

\* the tokens issued so far
Tokens == {i.token : i \in issued}

\* values a client can put in the x-auth-token header at time t
Headers(t) ==
    {Absent, Empty, Garbage}
    \cup Tokens
    \cup UNION {Tampered(tok) : tok \in Tokens}
    \cup {jwtSign(u, ForeignKey, ExpiresIn, t) : u \in Ids}

(* ------------------------ middleware/auth.js -------------------------- *)
\* variant: the header is tested with token === undefined
Falsy_UndefinedOnly(token) == token.kind = "absent"

\* !token
Falsy(token) == token.kind \in {"absent", "empty"}

\* variant: the expiry test is one second early
jwtVerify_OffByOne(token, key, t) ==
    IF token.kind # "jwt"
    THEN [err |-> "malformed", user |-> NoUser]
    ELSE IF token.tag # Tag(token.user, token.iat, token.exp, key)
    THEN [err |-> "invalid", user |-> NoUser]
    ELSE IF t >= token.exp - 1
    THEN [err |-> "expired", user |-> NoUser]
    ELSE [err |-> "none", user |-> token.user]

\* variant: jwt.verify with ignoreExpiration
jwtVerify_NoExpiry(token, key, t) ==
    IF token.kind # "jwt"
    THEN [err |-> "malformed", user |-> NoUser]
    ELSE IF token.tag # Tag(token.user, token.iat, token.exp, key)
    THEN [err |-> "invalid", user |-> NoUser]
    ELSE [err |-> "none", user |-> token.user]

\* variant: jwt.decode in place of jwt.verify, the tag is not checked
jwtVerify_NoSignature(token, key, t) ==
    IF token.kind # "jwt"
    THEN [err |-> "malformed", user |-> NoUser]
    ELSE IF t >= token.exp
    THEN [err |-> "expired", user |-> NoUser]
    ELSE [err |-> "none", user |-> token.user]

\* variant: the tag is checked under any key the server has ever used
jwtVerify_AnyServerKey(token, key, t) ==
    IF token.kind # "jwt"
    THEN [err |-> "malformed", user |-> NoUser]
    ELSE IF \A k \in Secrets : token.tag # Tag(token.user, token.iat, token.exp, k)
    THEN [err |-> "invalid", user |-> NoUser]
    ELSE IF t >= token.exp
    THEN [err |-> "expired", user |-> NoUser]
    ELSE [err |-> "none", user |-> token.user]

\* variant: the expiry is tested before the signature
jwtVerify_ExpiryFirst(token, key, t) ==
    IF token.kind # "jwt"
    THEN [err |-> "malformed", user |-> NoUser]
    ELSE IF t >= token.exp
    THEN [err |-> "expired", user |-> NoUser]
    ELSE IF token.tag # Tag(token.user, token.iat, token.exp, key)
    THEN [err |-> "invalid", user |-> NoUser]
    ELSE [err |-> "none", user |-> token.user]

\* variant: a token signed under a well-known default key is taken as well
jwtVerify_DefaultKey(token, key, t) ==
    IF token.kind # "jwt"
    THEN [err |-> "malformed", user |-> NoUser]
    ELSE IF /\ token.tag # Tag(token.user, token.iat, token.exp, key)
            /\ token.tag # Tag(token.user, token.iat, token.exp, ForeignKey)
    THEN [err |-> "invalid", user |-> NoUser]
    ELSE IF t >= token.exp
    THEN [err |-> "expired", user |-> NoUser]
    ELSE [err |-> "none", user |-> token.user]

\* jwt.verify(token, key) evaluated at time t: the error it throws ("none" when it
\* returns) and the decoded payload's user.  The library parses the token, then
\* checks the signature, then the expiry (clock >= exp is expired).
jwtVerify(token, key, t) ==
    IF token.kind # "jwt"
    THEN [err |-> "malformed", user |-> NoUser]
    ELSE IF token.tag # Tag(token.user, token.iat, token.exp, key)
    THEN [err |-> "invalid", user |-> NoUser]
    ELSE IF t >= token.exp
    THEN [err |-> "expired", user |-> NoUser]
    ELSE [err |-> "none", user |-> token.user]

\* the places of an HTTP request in which a client can put a token: the
\* x-auth-token header and three places the middleware never looks at
Plain(token) ==
    [xAuthToken |-> token, authorization |-> Absent, body |-> Absent, query |-> Absent]

\* variant: without an x-auth-token header the Authorization header is used
reqHeader_Fallback(m, name) ==
    CASE name = "x-auth-token" ->
           IF m.xAuthToken.kind = "absent" THEN m.authorization ELSE m.xAuthToken
      [] name = "authorization" -> m.authorization
      [] OTHER -> Absent

\* req.header(name): the value of that header, undefined when it was not sent
reqHeader(m, name) ==
    CASE name = "x-auth-token" -> m.xAuthToken
      [] name = "authorization" -> m.authorization
      [] OTHER -> Absent

\* what a handler holds of the store before it has read anything
NoDoc == [found |-> FALSE, likes |-> <<>>, v |-> 0]

\* a request context before the server has seen the request; doc is the
\* document the handler has read from the store (const post, let profile)
IdleReq ==
    [pc |-> "idle", route |-> "-", msgIn |-> Plain(Absent), token |-> Absent,
     params |-> [id |-> 0, comment_id |-> 0], user |-> NoUser, nextCalled |-> FALSE, status |-> 0, msg |-> "",
     err |-> "none", at |-> 0, key |-> "-", log |-> <<>>, doc |-> NoDoc]

\* res.send / res.json of a handler: the response ends the request
Reply(r, code, msg) == [r EXCEPT !.status = code, !.msg = msg, !.pc = "done"]

\* res.status(code).json({ msg }): the response ends the request
Respond(r, code, msg, step) ==
    [r EXCEPT !.status = code, !.msg = msg, !.pc = "done", !.log = Append(@, step)]

\* req.user = decoded.user
SetUser(r, decoded) == [r EXCEPT !.user = decoded.user, !.log = Append(@, "set_user")]

\* next(): control passes to the route handler
CallNext(r) == [r EXCEPT !.nextCalled = TRUE, !.pc = "handler", !.log = Append(@, "next")]

\* variant: next() is called after the try/catch instead of inside the try
TryVerify_NextAfterCatch(r, key, t) ==
    LET decoded == jwtVerify(r.token, key, t)
        r1 == [r EXCEPT !.err = decoded.err, !.at = t, !.key = key,
                        !.log = Append(@, "verify")]
    IN  IF decoded.err = "none"
        THEN CallNext(SetUser(r1, decoded))
        ELSE [Respond(r1, 401, MsgInvalid, "catch_401") EXCEPT
                 !.nextCalled = TRUE, !.log = Append(@, "next")]

\* variant: the catch block sends err.message
TryVerify_LeakReason(r, key, t) ==
    LET decoded == jwtVerify(r.token, key, t)
        r1 == [r EXCEPT !.err = decoded.err, !.at = t, !.key = key,
                        !.log = Append(@, "verify")]
    IN  IF decoded.err = "none"
        THEN CallNext(SetUser(r1, decoded))
        ELSE Respond(r1, 401, decoded.err, "catch_401")

\* variant: req.user is taken from the undecoded payload before jwt.verify runs
TryVerify_SetFirst(r, key, t) ==
    LET decoded == jwtVerify(r.token, key, t)
        r0 == SetUser(r, [user |-> r.token.user])
        r1 == [r0 EXCEPT !.err = decoded.err, !.at = t, !.key = key,
                         !.log = Append(@, "verify")]
    IN  IF decoded.err = "none"
        THEN CallNext(r1)
        ELSE Respond(r1, 401, MsgInvalid, "catch_401")

\* variant: the catch block only logs the error and sends nothing
TryVerify_Swallow(r, key, t) ==
    LET decoded == jwtVerify(r.token, key, t)
        r1 == [r EXCEPT !.err = decoded.err, !.at = t, !.key = key,
                        !.log = Append(@, "verify")]
    IN  IF decoded.err = "none"
        THEN CallNext(SetUser(r1, decoded))
        ELSE [r1 EXCEPT !.pc = "hung"]

\* variant: the catch block sends the signature part of the token back
TryVerify_EchoToken(r, key, t) ==
    LET decoded == jwtVerify(r.token, key, t)
        r1 == [r EXCEPT !.err = decoded.err, !.at = t, !.key = key,
                        !.log = Append(@, "verify")]
    IN  IF decoded.err = "none"
        THEN CallNext(SetUser(r1, decoded))
        ELSE Respond(r1, 401, r.token.tag.key, "catch_401")

\* the try block: jwt.verify, then req.user = decoded.user, then next();
\* the catch block answers 401
TryVerify(r, key, t) ==
    LET decoded == jwtVerify(r.token, key, t)
        r1 == [r EXCEPT !.err = decoded.err, !.at = t, !.key = key,
                        !.log = Append(@, "verify")]
    IN  IF decoded.err = "none"
        THEN CallNext(SetUser(r1, decoded))
        ELSE Respond(r1, 401, MsgInvalid, "catch_401")

\* variant: the middleware also looks the decoded user up in the User collection
auth_CheckStore(token, route, key, t) ==
    LET r0 == [IdleReq EXCEPT !.route = route, !.token = token,
                              !.log = <<"header">>]
    IN  IF Falsy(token)
        THEN Respond(r0, 401, MsgNoToken, "no_token_401")
        ELSE IF jwtVerify(token, key, t).err = "none" /\ token.user \notin users
        THEN Respond([r0 EXCEPT !.at = t, !.key = key, !.log = Append(@, "verify")],
                     401, MsgInvalid, "catch_401")
        ELSE TryVerify(r0, key, t)

\* module.exports = function(req, res, next): the request context after the
\* middleware has run on a request for route that carries header token
auth(token, route, key, t) ==
    LET r0 == [IdleReq EXCEPT !.route = route, !.token = token,
                              !.log = <<"header">>]
    IN  IF Falsy(token)
        THEN Respond(r0, 401, MsgNoToken, "no_token_401")
        ELSE TryVerify(r0, key, t)

\* the middleware run on the HTTP request m: line 10 reads the x-auth-token
\* header of m, the rest works on that value
Receive(m, route, key, t) ==
    [auth(reqHeader(m, "x-auth-token"), route, key, t) EXCEPT !.msgIn = m]

\* requests that carry an issued token in the Authorization header, in the body
\* or in the query string, next to whatever they have in x-auth-token
Carrying(t) ==
    UNION {{[Plain(h) EXCEPT !.authorization = tok],
            [Plain(h) EXCEPT !.body = tok],
            [Plain(h) EXCEPT !.query = tok]} :
              h \in {Absent, Empty, Garbage} \cup Tokens, tok \in Tokens}

\* res.json / res.send and the return of the callback that called it happen in
\* one turn of the event loop: no other callback runs while a response that
\* was just written still holds its request context
Quiet == \A r \in Requests : req[r].pc # "done"

\* variant: the middleware runs only after a round trip to the identity store
\* and answers 500 when the store is unreachable
Gate_Lookup(r) ==
    /\ Quiet
    /\ req[r].pc = "idle"
    /\ \E token \in Headers(now), route \in Routes :
           req' = [req EXCEPT ![r] =
                     IF dbUp THEN auth(token, route, jwtSecret, now)
                     ELSE Reply([IdleReq EXCEPT !.route = route, !.token = token],
                                500, "Server error")]
    /\ UNCHANGED <<server, client, issuer, social>>

\* variant: the decoded user is kept in one variable of the module, which every
\* request in flight reads
Gate_SharedUser(r) ==
    /\ Quiet
    /\ req[r].pc = "idle"
    /\ \E token \in Headers(now), route \in Routes :
           LET out == auth(token, route, jwtSecret, now)
           IN  req' = [q \in Requests |->
                         IF q = r THEN out
                         ELSE IF out.nextCalled /\ req[q].nextCalled
                         THEN [req[q] EXCEPT !.user = out.user]
                         ELSE req[q]]
    /\ UNCHANGED <<server, client, issuer, social>>

\* a request arrives on a protected route and the middleware runs
Gate(r) ==
    /\ Quiet
    /\ req[r].pc = "idle"
    /\ \E token \in Headers(now), route \in Routes :
           req' = [req EXCEPT ![r] = Receive(Plain(token), route, jwtSecret, now)]
    /\ UNCHANGED <<server, client, issuer, social>>

\* a request arrives that carries a token outside the x-auth-token header
GateCarried(r) ==
    /\ Quiet
    /\ req[r].pc = "idle"
    /\ \E m \in Carrying(now), route \in Routes :
           req' = [req EXCEPT ![r] = Receive(m, route, jwtSecret, now)]
    /\ UNCHANGED <<server, client, issuer, social>>

(* ----------------------- protected route handlers --------------------- *)
\* router.get('/', auth, (req, res) => res.send('Auth route'))
GetAuth(r) ==
    /\ Quiet
    /\ req[r].pc = "handler"
    /\ req[r].route = "GET api/auth"
    /\ req' = [req EXCEPT ![r] = Reply(@, 200, "Auth route")]
    /\ UNCHANGED <<server, client, issuer, social>>

\* DELETE api/profile up to the answer of Profile.findOneAndRemove
DeleteProfile(r) ==
    /\ Quiet
    /\ req[r].pc = "handler"
    /\ req[r].route = "DELETE api/profile"
    /\ IF ~dbUp
       THEN /\ req' = [req EXCEPT ![r] = Reply(@, 500, "Server error")]
            /\ UNCHANGED profiles
       ELSE /\ req' = [req EXCEPT ![r].pc = "remove_user"]
            /\ profiles' = [profiles EXCEPT ![req[r].user] = IF @ > 0 THEN @ - 1 ELSE 0]
    /\ experience' = IF dbUp /\ profiles[req[r].user] = 1
                      THEN [experience EXCEPT ![req[r].user] = <<>>]
                      ELSE experience
    /\ UNCHANGED <<now, jwtSecret, issued, users, nextUser, dbUp, client, issuer,
                   posts, nextId>>

\* DELETE api/profile from User.findOneAndRemove on
DeleteUser(r) ==
    /\ Quiet
    /\ req[r].pc = "remove_user"
    /\ IF ~dbUp
       THEN /\ req' = [req EXCEPT ![r] = Reply(@, 500, "Server error")]
            /\ UNCHANGED users
       ELSE /\ req' = [req EXCEPT ![r] = Reply(@, 200, "User deleted")]
            /\ users' = users \ {req[r].user}
    /\ UNCHANGED <<now, jwtSecret, issued, nextUser, profiles, dbUp, client, issuer, social>>

\* variant: an exception of the handler comes back out of next() into the try
\* block of the middleware, whose catch answers 401
handle_request_Rethrow(r) == Respond(r, 401, MsgInvalid, "catch_401")

\* Express runs the handler that next() reaches in a try/catch of its own: an
\* exception of the handler goes to the error handler of the application,
\* which answers 500, and next() returns normally to the middleware
handle_request(r) == Respond(r, 500, "Internal Server Error", "error_handler_500")

\* the handler reached through next() throws
HandlerThrows(r) ==
    /\ Quiet
    /\ req[r].pc = "handler"
    /\ req' = [req EXCEPT ![r] = handle_request(@)]
    /\ UNCHANGED <<server, client, issuer, social>>

\* the response has left and the request context is dropped
Finish(r) ==
    /\ req[r].pc = "done"
    /\ req' = [req EXCEPT ![r] = IdleReq]
    /\ UNCHANGED <<server, client, issuer, social>>

(* ------------------- routes/api/posts.js, profile.js ------------------ *)
\* number of ObjectIds the store gives out in a run
MaxDocs == 3

\* the protected routes that write posts, comments and profiles
SocialRoutes ==
    {"POST api/profile", "DELETE api/profile", "POST api/posts",
     "POST api/posts/comment/:id", "DELETE api/posts/comment/:id/:comment_id"}

\* a request arrives on one of these routes with its :id and :comment_id
GateSocial(r) ==
    /\ Quiet
    /\ req[r].pc = "idle"
    /\ \E token \in Tokens \cup {Absent}, route \in SocialRoutes, id, cid \in 1..MaxDocs :
           req' = [req EXCEPT ![r] =
                     [Receive(Plain(token), route, jwtSecret, now)
                        EXCEPT !.params = [id |-> id, comment_id |-> cid]]]
    /\ UNCHANGED <<server, client, issuer, social>>

\* array.map(f).indexOf(x) + 1 / array.find: the first position of seq whose
\* element satisfies the test, 0 when there is none
IndexOfId(seq, id) ==
    IF \E n \in 1..Len(seq) : seq[n].id = id
    THEN CHOOSE n \in 1..Len(seq) : seq[n].id = id /\ \A k \in 1..(n - 1) : seq[k].id # id
    ELSE 0

IndexOfUser(seq, u) ==
    IF \E n \in 1..Len(seq) : seq[n].user = u
    THEN CHOOSE n \in 1..Len(seq) : seq[n].user = u /\ \A k \in 1..(n - 1) : seq[k].user # u
    ELSE 0

\* array.splice(n - 1, 1)
Splice(seq, n) == SubSeq(seq, 1, n - 1) \o SubSeq(seq, n + 1, Len(seq))

\* POST api/profile: Profile.findOne, then findOneAndUpdate or save.  When the
\* store fails, the catch block calls req.status, which is no function: the
\* handler ends on a TypeError and no response is sent.
CreateProfile(r) ==
    /\ Quiet
    /\ req[r].pc = "handler"
    /\ req[r].route = "POST api/profile"
    /\ IF ~dbUp
       THEN /\ req' = [req EXCEPT ![r].pc = "hung"]
            /\ UNCHANGED profiles
       ELSE /\ req' = [req EXCEPT ![r] = Reply(@, 200, "profile")]
            /\ profiles' = [profiles EXCEPT ![req[r].user] = 1]
    /\ UNCHANGED <<now, jwtSecret, issued, users, nextUser, dbUp, client, issuer, social>>

\* POST api/posts: User.findById, new Post({..., user: req.user.id }).save()
CreatePost(r) ==
    /\ Quiet
    /\ req[r].pc = "handler"
    /\ req[r].route = "POST api/posts"
    /\ IF ~dbUp \/ req[r].user \notin users
       THEN /\ req' = [req EXCEPT ![r] = Reply(@, 500, "Server error")]
            /\ UNCHANGED social
       ELSE /\ nextId <= MaxDocs
            /\ req' = [req EXCEPT ![r] = Reply(@, 200, "post")]
            /\ posts' = Append(posts, [id |-> nextId, user |-> req[r].user,
                                       comments |-> <<>>, likes |-> <<>>, v |-> 0])
            /\ nextId' = nextId + 1
            /\ UNCHANGED experience
    /\ UNCHANGED <<server, client, issuer>>

\* POST api/posts/comment/:id: the new comment is put in front (unshift)
AddComment(r) ==
    /\ Quiet
    /\ req[r].pc = "handler"
    /\ req[r].route = "POST api/posts/comment/:id"
    /\ LET p == IndexOfId(posts, req[r].params.id)
       IN  IF ~dbUp
           THEN /\ req' = [req EXCEPT ![r] = Reply(@, 500, "Server error")]
                /\ UNCHANGED social
           ELSE IF p = 0
           THEN /\ req' = [req EXCEPT ![r] = Reply(@, 404, "Post not found")]
                /\ UNCHANGED social
           ELSE IF req[r].user \notin users
           THEN /\ req' = [req EXCEPT ![r] = Reply(@, 500, "Server error")]
                /\ UNCHANGED social
           ELSE /\ nextId <= MaxDocs
                /\ req' = [req EXCEPT ![r] = Reply(@, 200, "comments")]
                /\ posts' = [posts EXCEPT ![p].comments =
                               <<[id |-> nextId, user |-> req[r].user]>> \o @]
                /\ nextId' = nextId + 1
                /\ UNCHANGED experience
    /\ UNCHANGED <<server, client, issuer>>

\* DELETE api/posts/comment/:id/:comment_id: the comment is looked up by
\* comment_id and its user checked, then removeIndex is the index of the first
\* comment of req.user.id in the post, and that one is spliced out
DeleteComment(r) ==
    /\ Quiet
    /\ req[r].pc = "handler"
    /\ req[r].route = "DELETE api/posts/comment/:id/:comment_id"
    /\ LET p == IndexOfId(posts, req[r].params.id)
           c == IF p = 0 THEN 0 ELSE IndexOfId(posts[p].comments, req[r].params.comment_id)
       IN  IF ~dbUp
           THEN /\ req' = [req EXCEPT ![r] = Reply(@, 500, "Server error")]
                /\ UNCHANGED social
           ELSE IF p = 0
           THEN /\ req' = [req EXCEPT ![r] = Reply(@, 404, "Post not found")]
                /\ UNCHANGED social
           ELSE IF c = 0
           THEN /\ req' = [req EXCEPT ![r] = Reply(@, 404, "Comment not found")]
                /\ UNCHANGED social
           ELSE IF posts[p].comments[c].user # req[r].user
           THEN /\ req' = [req EXCEPT ![r] = Reply(@, 401, "User not authorised")]
                /\ UNCHANGED social
           ELSE LET removeIndex == IndexOfUser(posts[p].comments, req[r].user)
                IN  /\ req' = [req EXCEPT ![r] = Reply(@, 200, "comments")]
                    /\ posts' = [posts EXCEPT ![p].comments = Splice(@, removeIndex)]
                    /\ UNCHANGED <<nextId, experience>>
    /\ UNCHANGED <<server, client, issuer>>

(* ------------- experience of a profile, removal of a post -------------- *)
\* the protected routes that write the experience of a profile and remove posts
OwnedRoutes ==
    {"POST api/profile", "PUT api/profile/experience",
     "DELETE api/profile/experience/:exp_id", "POST api/posts",
     "DELETE api/posts/:id"}

\* a request arrives on one of these routes with its :id or :exp_id; 0 stands
\* for a parameter that is no id of the store
GateOwned(r) ==
    /\ Quiet
    /\ req[r].pc = "idle"
    /\ \E token \in Tokens \cup {Absent}, route \in OwnedRoutes, id \in 0..MaxDocs :
           req' = [req EXCEPT ![r] =
                     [Receive(Plain(token), route, jwtSecret, now)
                        EXCEPT !.params = [id |-> id, exp_id |-> id, comment_id |-> 0]]]
    /\ UNCHANGED <<server, client, issuer, social>>

\* array.indexOf: the index, from 0, of the first element with that id, -1
\* when there is none
indexOf(seq, id) == IndexOfId(seq, id) - 1

\* array.splice(start, 1): a negative start counts from the end of the array
splice(seq, start) ==
    LET from == IF start < 0
                THEN (IF Len(seq) + start < 0 THEN 0 ELSE Len(seq) + start)
                ELSE (IF start > Len(seq) THEN Len(seq) ELSE start)
    IN  SubSeq(seq, 1, from) \o SubSeq(seq, from + 2, Len(seq))

\* PUT api/profile/experience: validationResult, Profile.findOne, unshift, save.
\* Without a profile, profile.experience throws and the catch answers 500.
AddExperience(r) ==
    /\ Quiet
    /\ req[r].pc = "handler"
    /\ req[r].route = "PUT api/profile/experience"
    /\ \E valid \in BOOLEAN :
          IF ~valid
          THEN /\ req' = [req EXCEPT ![r] = Reply(@, 400, "errors")]
               /\ UNCHANGED social
          ELSE IF ~dbUp \/ profiles[req[r].user] = 0
          THEN /\ req' = [req EXCEPT ![r] = Reply(@, 500, "Server error")]
               /\ UNCHANGED social
          ELSE /\ nextId <= MaxDocs
               /\ req' = [req EXCEPT ![r] = Reply(@, 200, "profile")]
               /\ experience' = [experience EXCEPT ![req[r].user] =
                                    <<[id |-> nextId]>> \o @]
               /\ nextId' = nextId + 1
               /\ UNCHANGED posts
    /\ UNCHANGED <<server, client, issuer>>

\* DELETE api/profile/experience/:exp_id: Profile.findOne, removeIndex from
\* map(item => item.id).indexOf(req.params.exp_id), splice(removeIndex, 1), save
DeleteExperience(r) ==
    /\ Quiet
    /\ req[r].pc = "handler"
    /\ req[r].route = "DELETE api/profile/experience/:exp_id"
    /\ IF ~dbUp \/ profiles[req[r].user] = 0
       THEN /\ req' = [req EXCEPT ![r] = Reply(@, 500, "Server error")]
            /\ UNCHANGED social
       ELSE LET removeIndex == indexOf(experience[req[r].user], req[r].params.exp_id)
            IN  /\ req' = [req EXCEPT ![r] = Reply(@, 200, "profile")]
                /\ experience' = [experience EXCEPT ![req[r].user] =
                                     splice(@, removeIndex)]
                /\ UNCHANGED <<posts, nextId>>
    /\ UNCHANGED <<server, client, issuer>>

\* variant: the post is removed without the check of its user
DeletePost_NoOwnerCheck(r) ==
    /\ Quiet
    /\ req[r].pc = "handler"
    /\ req[r].route = "DELETE api/posts/:id"
    /\ LET p == IndexOfId(posts, req[r].params.id)
       IN  IF ~dbUp
           THEN /\ req' = [req EXCEPT ![r] = Reply(@, 500, "Server error")]
                /\ UNCHANGED social
           ELSE IF p = 0
           THEN /\ req' = [req EXCEPT ![r] = Reply(@, 404, "Post not found")]
                /\ UNCHANGED social
           ELSE /\ req' = [req EXCEPT ![r] = Reply(@, 200, "Post removed")]
                /\ posts' = Splice(posts, p)
                /\ UNCHANGED <<nextId, experience>>
    /\ UNCHANGED <<server, client, issuer>>

\* DELETE api/posts/:id: Post.findById (a parameter that is no ObjectId makes
\* it throw, and the catch answers 404), the check of post.user against
\* req.user.id, post.remove()
DeletePost(r) ==
    /\ Quiet
    /\ req[r].pc = "handler"
    /\ req[r].route = "DELETE api/posts/:id"
    /\ LET p == IndexOfId(posts, req[r].params.id)
       IN  IF ~dbUp
           THEN /\ req' = [req EXCEPT ![r] = Reply(@, 500, "Server error")]
                /\ UNCHANGED social
           ELSE IF p = 0
           THEN /\ req' = [req EXCEPT ![r] = Reply(@, 404, "Post not found")]
                /\ UNCHANGED social
           ELSE IF posts[p].user # req[r].user
           THEN /\ req' = [req EXCEPT ![r] = Reply(@, 401, "User not authorised")]
                /\ UNCHANGED social
           ELSE /\ req' = [req EXCEPT ![r] = Reply(@, 200, "Post removed")]
                /\ posts' = Splice(posts, p)
                /\ UNCHANGED <<nextId, experience>>
    /\ UNCHANGED <<server, client, issuer>>

(* -------------- likes of a post, requests in flight together ----------- *)
\* the protected routes whose handlers read a document, decide, and write
LikeRoutes ==
    {"POST api/posts", "PUT api/posts/like/:id", "PUT api/posts/unlike/:id"}
ProfileRoutes == {"POST api/profile"}

\* ids of the posts that the requests of these routes create and name
LikedIds == {1}
\* number of saves of one post that the model follows
MaxSaves == 2

\* a request arrives on one of these routes with its :id; 0 stands for a
\* parameter that is no id of the store
GateRace(r, routes) ==
    /\ Quiet
    /\ req[r].pc = "idle"
    /\ \E token \in Tokens \cup {Absent}, route \in routes, id \in LikedIds \cup {0} :
           /\ route = "POST api/posts" => nextId \in LikedIds
           /\ req' = [req EXCEPT ![r] =
                        [Receive(Plain(token), route, jwtSecret, now)
                           EXCEPT !.params = [id |-> id, comment_id |-> 0]]]
    /\ UNCHANGED <<server, client, issuer, social>>

\* variant: save sends a new first element as an atomic push onto the array
\* in the store, without a condition on the version
save_Push(current, mine, likes) ==
    [ok |-> TRUE,
     likes |-> IF Len(likes) > Len(mine.likes)
               THEN <<likes[1]>> \o current.likes
               ELSE likes]

\* post.save() after unshift or splice of post.likes, with current the post in
\* the store, mine the post as the handler read it and likes its array now:
\* Mongoose sends the whole array ($set) with the version (__v) it read in the
\* condition of the update and increments the version; an update that matches
\* no document ends in a VersionError
save(current, mine, likes) ==
    IF current.v = mine.v
    THEN [ok |-> TRUE, likes |-> likes]
    ELSE [ok |-> FALSE, likes |-> current.likes]

\* post.likes.filter(like => like.user.toString() === req.user.id).length > 0
Liked(likes, u) == \E n \in 1..Len(likes) : likes[n].user = u

\* PUT api/posts/like/:id and PUT api/posts/unlike/:id up to the answer of
\* Post.findById
FindPost(r) ==
    /\ Quiet
    /\ req[r].pc = "handler"
    /\ req[r].route \in {"PUT api/posts/like/:id", "PUT api/posts/unlike/:id"}
    /\ LET p == IndexOfId(posts, req[r].params.id)
       IN  IF ~dbUp
           THEN req' = [req EXCEPT ![r] = Reply(@, 500, "Server error")]
           ELSE IF p = 0
           THEN req' = [req EXCEPT ![r] = Reply(@, 404, "Post not found")]
           ELSE req' = [req EXCEPT ![r].pc = "read",
                                   ![r].doc = [found |-> TRUE, likes |-> posts[p].likes,
                                               v |-> posts[p].v]]
    /\ UNCHANGED <<server, client, issuer, social>>

\* PUT api/posts/like/:id from the check of post.likes to the answer of save
LikePost(r) ==
    /\ Quiet
    /\ req[r].pc = "read"
    /\ req[r].route = "PUT api/posts/like/:id"
    /\ LET p == IndexOfId(posts, req[r].params.id)
           post == req[r].doc
       IN  IF Liked(post.likes, req[r].user)
           THEN /\ req' = [req EXCEPT ![r] = Reply(@, 400, "Post already liked")]
                /\ UNCHANGED social
           ELSE IF ~dbUp \/ p = 0
           THEN /\ req' = [req EXCEPT ![r] = Reply(@, 500, "Server error")]
                /\ UNCHANGED social
           ELSE LET out == save(posts[p], post, <<[user |-> req[r].user]>> \o post.likes)
                IN  IF ~out.ok
                    THEN /\ req' = [req EXCEPT ![r] = Reply(@, 500, "Server error")]
                         /\ UNCHANGED social
                    ELSE /\ posts[p].v < MaxSaves
                         /\ req' = [req EXCEPT ![r] = Reply(@, 200, "likes")]
                         /\ posts' = [posts EXCEPT ![p].likes = out.likes, ![p].v = @ + 1]
                         /\ UNCHANGED <<nextId, experience>>
    /\ UNCHANGED <<server, client, issuer>>

\* PUT api/posts/unlike/:id from the check of post.likes to the answer of save
UnlikePost(r) ==
    /\ Quiet
    /\ req[r].pc = "read"
    /\ req[r].route = "PUT api/posts/unlike/:id"
    /\ LET p == IndexOfId(posts, req[r].params.id)
           post == req[r].doc
       IN  IF ~Liked(post.likes, req[r].user)
           THEN /\ req' = [req EXCEPT ![r] = Reply(@, 400, "Post has not been liked")]
                /\ UNCHANGED social
           ELSE IF ~dbUp \/ p = 0
           THEN /\ req' = [req EXCEPT ![r] = Reply(@, 500, "Server error")]
                /\ UNCHANGED social
           ELSE LET removeIndex == IndexOfUser(post.likes, req[r].user)
                    out == save(posts[p], post, Splice(post.likes, removeIndex))
                IN  IF ~out.ok
                    THEN /\ req' = [req EXCEPT ![r] = Reply(@, 500, "Server error")]
                         /\ UNCHANGED social
                    ELSE /\ posts[p].v < MaxSaves
                         /\ req' = [req EXCEPT ![r] = Reply(@, 200, "likes")]
                         /\ posts' = [posts EXCEPT ![p].likes = out.likes, ![p].v = @ + 1]
                         /\ UNCHANGED <<nextId, experience>>
    /\ UNCHANGED <<server, client, issuer>>

\* POST api/profile up to the answer of Profile.findOne
FindProfile(r) ==
    /\ Quiet
    /\ req[r].pc = "handler"
    /\ req[r].route = "POST api/profile"
    /\ IF ~dbUp
       THEN req' = [req EXCEPT ![r].pc = "hung"]
       ELSE req' = [req EXCEPT ![r].pc = "found",
                               ![r].doc = [NoDoc EXCEPT !.found = profiles[req[r].user] > 0]]
    /\ UNCHANGED <<server, client, issuer, social>>

\* POST api/profile from if (profile) on: findOneAndUpdate of the profile that
\* was found, or save of a new Profile document
SaveProfile(r) ==
    /\ Quiet
    /\ req[r].pc = "found"
    /\ IF ~dbUp
       THEN /\ req' = [req EXCEPT ![r].pc = "hung"]
            /\ UNCHANGED profiles
       ELSE IF req[r].doc.found
       THEN /\ req' = [req EXCEPT ![r] = Reply(@, 200, "profile")]
            /\ UNCHANGED profiles
       ELSE /\ req' = [req EXCEPT ![r] = Reply(@, 200, "profile")]
            /\ profiles' = [profiles EXCEPT ![req[r].user] = @ + 1]
    /\ UNCHANGED <<now, jwtSecret, issued, users, nextUser, dbUp, client, issuer, social>>

(* --------------------------- token issuance --------------------------- *)
\* Date.now(): the clock in milliseconds
DateNow == now * 1000 + msec

\* Math.floor(Date.now() / 1000): the timestamp jwt.sign puts in iat
Seconds(ms) == ms \div 1000

\* POST api/users with a valid body and a new email: the user is saved and
\* jwt.sign({user: {id: user.id}}, jwtSecret, {expiresIn: 360000}) is returned
Register ==
    /\ Quiet
    /\ dbUp
    /\ nextUser \in Ids
    /\ now <= MaxEarly
    /\ users' = users \cup {nextUser}
    /\ nextUser' = nextUser + 1
    /\ issued' = issued \cup {[id |-> nextUser, at |-> DateNow,
                              token |-> jwtSign(nextUser, jwtSecret, ExpiresIn, now)]}
    /\ UNCHANGED <<now, jwtSecret, profiles, dbUp, req, client, issuer, social>>

\* config values with which jwt.sign cannot work: no jwtSecret entry in the
\* configuration (config.get throws), and an empty one (jwt.sign reports
\* "secretOrPrivateKey must have a value")
NoSecret == "undefined"
EmptySecret == ""
\* a jwtSecret that is not a string (a JSON number): jwt.sign takes it, and the
\* signing stream reports "secret must be a string or buffer" to the callback
NumberSecret == "12345"

\* emails of the registration bodies
Emails == {"a@x.io", "b@x.io"}
\* milliseconds within a second at which the model looks at the clock
SubSecond == {0, 500}
\* number of issuances in a run of the issuer
MaxIssued == 2

\* the request to POST api/users before it arrives
IdleReg ==
    [pc |-> "idle", email |-> "-", id |-> NoUser, status |-> 0, msg |-> "",
     token |-> Absent, key |-> "-", at |-> 0, signErr |-> "none"]

\* res.status(code).json / send of the register route
RegReply(g, code, msg) == [g EXCEPT !.status = code, !.msg = msg, !.pc = "done"]

\* lines 296-301: validationResult(req); a body that fails a check is answered 400
RegArrive ==
    /\ reg.pc = "idle"
    /\ \E email \in Emails, valid \in BOOLEAN :
          reg' = IF ~valid
                 THEN RegReply([reg EXCEPT !.email = email], 400, "errors")
                 ELSE [reg EXCEPT !.email = email, !.pc = "find"]
    /\ UNCHANGED <<server, req, client, msec, emailOf, social>>

\* lines 306-310: await User.findOne({ email }); an existing user is answered 400
RegFind ==
    /\ reg.pc = "find"
    /\ reg' = IF ~dbUp
              THEN RegReply(reg, 500, "Server error")
              ELSE IF \E u \in users : emailOf[u] = reg.email
              THEN RegReply(reg, 400, "User already exists")
              ELSE [reg EXCEPT !.pc = "save"]
    /\ UNCHANGED <<server, req, client, msec, emailOf, social>>

\* lines 323-333 and 357-366: await user.save(), then, in the same turn, the
\* call of jwt.sign.  config.get throws when the configuration has no
\* jwtSecret, and jwt.sign hands an empty secret to its callback at once, whose
\* throw comes back through jwt.sign; both land in the catch of the route (500).
\* Otherwise jwt.sign has fixed iat from the clock and signs in a later turn.
RegSave ==
    /\ reg.pc = "save"
    /\ IF ~dbUp
       THEN /\ reg' = RegReply(reg, 500, "Server error")
            /\ UNCHANGED <<users, nextUser, emailOf>>
       ELSE /\ nextUser \in Ids
            /\ users' = users \cup {nextUser}
            /\ nextUser' = nextUser + 1
            /\ emailOf' = [emailOf EXCEPT ![nextUser] = reg.email]
            /\ reg' = IF jwtSecret \in {NoSecret, EmptySecret}
                      THEN RegReply([reg EXCEPT !.id = nextUser,
                                                !.signErr = IF jwtSecret = NoSecret
                                                            THEN "config" ELSE "secret"],
                                    500, "Server error")
                      ELSE [reg EXCEPT !.id = nextUser, !.key = jwtSecret,
                                       !.at = DateNow, !.pc = "signing"]
    /\ UNCHANGED <<now, jwtSecret, issued, profiles, dbUp, req, client, msec, social>>

\* lines 367-370: the callback of jwt.sign, called from the signing stream in a
\* later turn, outside the try of the route.  With a token it answers
\* res.json({ token }).  With an error of the stream it throws: nothing catches
\* it, the process ends on the uncaught exception and no response is sent.
RegSigned ==
    /\ reg.pc = "signing"
    /\ IF reg.key = NumberSecret
       THEN /\ reg' = [reg EXCEPT !.pc = "crashed", !.signErr = "stream"]
            /\ UNCHANGED issued
       ELSE LET token == jwtSign(reg.id, reg.key, ExpiresIn, Seconds(reg.at))
            IN  /\ reg' = [RegReply(reg, 200, "token") EXCEPT !.token = token]
                /\ issued' = issued \cup {[id |-> reg.id, at |-> reg.at, token |-> token]}
    /\ UNCHANGED <<now, jwtSecret, users, nextUser, profiles, dbUp, req, client,
                   msec, emailOf, social>>

\* the response has left, or the process has been started again after it ended
RegFinish ==
    /\ reg.pc \in {"done", "crashed"}
    /\ reg' = IdleReg
    /\ UNCHANGED <<server, req, client, msec, emailOf, social>>

\* POST api/auth with the email and password of user u: the token issuer is
\* called for the id of u with the lifetime of the registration tokens
Login ==
    /\ reg.pc = "idle"
    /\ jwtSecret \in Secrets
    /\ Cardinality(issued) < MaxIssued
    /\ \E u \in users :
          issued' = issued \cup
              {[id |-> u, at |-> DateNow,
                token |-> jwtSign(u, jwtSecret, ExpiresIn, Seconds(DateNow))]}
    /\ UNCHANGED <<now, jwtSecret, users, nextUser, profiles, dbUp, req, client,
                   issuer, social>>

\* half a second passes
TickMs ==
    /\ now <= MaxEarly
    /\ IF msec = 0
       THEN msec' = 500 /\ now' = now
       ELSE msec' = 0 /\ now' = now + 1
    /\ UNCHANGED <<jwtSecret, issued, users, nextUser, profiles, dbUp, req, client,
                   reg, emailOf, social>>

\* the server is restarted with a configuration without a usable jwtSecret
Misconfigure ==
    /\ reg.pc = "idle"
    /\ \E s \in {NoSecret, EmptySecret, NumberSecret} \ {jwtSecret} : jwtSecret' = s
    /\ UNCHANGED <<now, issued, users, nextUser, profiles, dbUp, req, client,
                   issuer, social>>

(* ---------------------------- environment ----------------------------- *)
\* time passes
Tick ==
    /\ Quiet
    /\ \E t \in Instants : t > now /\ now' = t
    /\ UNCHANGED <<jwtSecret, issued, users, nextUser, profiles, dbUp, req, client, issuer, social>>

\* the server is restarted with another jwtSecret in its configuration
Rotate ==
    /\ Quiet
    /\ \E s \in Secrets \ {jwtSecret} : jwtSecret' = s
    /\ UNCHANGED <<now, issued, users, nextUser, profiles, dbUp, req, client, issuer, social>>

\* the identity store becomes unreachable, or reachable again
DbToggle ==
    /\ Quiet
    /\ dbUp' = ~dbUp
    /\ UNCHANGED <<now, jwtSecret, issued, users, nextUser, profiles, req, client, issuer, social>>

(* ------------------- client/src/reducers/auth.js ---------------------- *)
\* null, as the value of a token
Null == [kind |-> "null", user |-> NoUser, iat |-> 0, exp |-> 0, tag |-> NoTag]

\* variant: the initial state does not read localStorage
initialState_NoStorage(ls) ==
    [token |-> Null, isAuthenticated |-> "null", loading |-> TRUE, user |-> NoUser]

\* const initialState, with ls the 'token' entry of localStorage at load
initialState(ls) ==
    [token |-> ls, isAuthenticated |-> "null", loading |-> TRUE, user |-> NoUser]

\* { ...st, ...payload }: the keys of payload replace those of st
Spread(st, payload) ==
    [k \in DOMAIN st |-> IF k \in DOMAIN payload THEN payload[k] ELSE st[k]]

\* variant: REGISTER_SUCCESS spreads the payload last
authReducer_PayloadLast(st, action) ==
    CASE action.type = "USER_LOADED" ->
           [st EXCEPT !.isAuthenticated = "true", !.loading = FALSE,
                      !.user = action.payload.user]
      [] action.type = "REGISTER_SUCCESS" ->
           Spread([st EXCEPT !.isAuthenticated = "true", !.loading = FALSE],
                  action.payload)
      [] action.type \in {"REGISTER_FAIL", "AUTH_ERROR"} ->
           [st EXCEPT !.token = Null, !.isAuthenticated = "false", !.loading = FALSE]
      [] OTHER -> st

\* variant: REGISTER_FAIL and AUTH_ERROR reset the whole slice, user included
authReducer_FailResets(st, action) ==
    CASE action.type = "USER_LOADED" ->
           [st EXCEPT !.isAuthenticated = "true", !.loading = FALSE,
                      !.user = action.payload.user]
      [] action.type = "REGISTER_SUCCESS" ->
           [Spread(st, action.payload) EXCEPT
               !.isAuthenticated = "true", !.loading = FALSE]
      [] action.type \in {"REGISTER_FAIL", "AUTH_ERROR"} ->
           [token |-> Null, isAuthenticated |-> "false", loading |-> FALSE,
            user |-> NoUser]
      [] OTHER -> st

\* authReducer(state, action): the next state
authReducer(st, action) ==
    CASE action.type = "USER_LOADED" ->
           [st EXCEPT !.isAuthenticated = "true", !.loading = FALSE,
                      !.user = action.payload.user]
      [] action.type = "REGISTER_SUCCESS" ->
           [Spread(st, action.payload) EXCEPT
               !.isAuthenticated = "true", !.loading = FALSE]
      [] action.type \in {"REGISTER_FAIL", "AUTH_ERROR"} ->
           [st EXCEPT !.token = Null, !.isAuthenticated = "false", !.loading = FALSE]
      [] OTHER -> st

\* localStorage.setItem('token', value) stores String(value): a token is kept
\* as it is, null becomes the string "null"
setItem(value) == IF value = Null THEN Garbage ELSE value

\* authReducer(state, action): what it leaves in localStorage 'token'
authReducerStorage(ls, action) ==
    CASE action.type = "REGISTER_SUCCESS" -> setItem(action.payload.token)
      [] action.type \in {"REGISTER_FAIL", "AUTH_ERROR"} -> Null
      [] OTHER -> ls

\* actions the client dispatches: the token of a registration response, the
\* user of a GET api/auth response, failures, and the Navbar's logout
ClientActions ==
    {[type |-> "REGISTER_SUCCESS", payload |-> [token |-> t]] : t \in Tokens}
    \cup {[type |-> "REGISTER_SUCCESS",
           payload |-> [token |-> t, isAuthenticated |-> "false", loading |-> TRUE]] :
            t \in Tokens}
    \cup {[type |-> "USER_LOADED", payload |-> [token |-> Null, user |-> u]] : u \in users}
    \cup {[type |-> ty, payload |-> [token |-> Null, user |-> NoUser]] :
            ty \in {"REGISTER_FAIL", "AUTH_ERROR", "LOGOUT"}}

\* store.dispatch(action)
Dispatch ==
    /\ Quiet
    /\ app.loaded
    /\ \E action \in ClientActions :
          /\ state' = authReducer(state, action)
          /\ localStorage' = authReducerStorage(localStorage, action)
    /\ UNCHANGED <<server, req, issuer, social, alerts, app, dispatched>>

(* ------------------- client/src/reducers/alert.js --------------------- *)
\* number of alerts the model keeps in the store
MaxAlerts == 3

\* ids (uuid) and messages of alerts; the reducer does not ask ids to be unique
AlertIds == {"id1", "id2"}
AlertMsgs == {"m1", "m2"}

\* variant: SET_ALERT puts the new alert in front
alertReducer_Prepend(st, action) ==
    CASE action.type = "SET_ALERT" -> <<action.payload>> \o st
      [] action.type = "REMOVE_ALERT" ->
           SelectSeq(st, LAMBDA alert : alert.id # action.payload)
      [] OTHER -> st

\* variant: REMOVE_ALERT removes the first alert with the id only
alertReducer_RemoveFirst(st, action) ==
    CASE action.type = "SET_ALERT" -> st \o <<action.payload>>
      [] action.type = "REMOVE_ALERT" ->
           IF \E n \in 1..Len(st) : st[n].id = action.payload
           THEN LET n == CHOOSE n \in 1..Len(st) :
                           /\ st[n].id = action.payload
                           /\ \A k \in 1..(n - 1) : st[k].id # action.payload
                IN  SubSeq(st, 1, n - 1) \o SubSeq(st, n + 1, Len(st))
           ELSE st
      [] OTHER -> st

\* variant: an action of a type the reducer does not know empties the list
alertReducer_UnknownClears(st, action) ==
    CASE action.type = "SET_ALERT" -> st \o <<action.payload>>
      [] action.type = "REMOVE_ALERT" ->
           SelectSeq(st, LAMBDA alert : alert.id # action.payload)
      [] OTHER -> <<>>

\* alertReducer(state, action): the next state
alertReducer(st, action) ==
    CASE action.type = "SET_ALERT" -> st \o <<action.payload>>
      [] action.type = "REMOVE_ALERT" ->
           SelectSeq(st, LAMBDA alert : alert.id # action.payload)
      [] OTHER -> st

\* the alert actions: SET_ALERT carries an alert, REMOVE_ALERT an id
SetAlerts ==
    {[type |-> "SET_ALERT", payload |-> [id |-> i, msg |-> m]] :
        i \in AlertIds, m \in AlertMsgs}
RemoveAlerts == {[type |-> "REMOVE_ALERT", payload |-> i] : i \in AlertIds}
\* an action of the auth reducer: the store hands every action to every reducer
OtherActions == {[type |-> "REGISTER_FAIL", payload |-> "id1"]}

\* number of actions dispatched to alertReducer that the model follows
MaxHistory == 4

\* dispatch of an action: the store keeps what alertReducer returns
DispatchAlert ==
    /\ app.loaded
    /\ Len(dispatched) < MaxHistory
    /\ \/ \E action \in SetAlerts :
             /\ Len(alerts) < MaxAlerts
             /\ alerts' = alertReducer(alerts, action)
             /\ dispatched' = Append(dispatched, action)
       \/ \E action \in RemoveAlerts \cup OtherActions :
             /\ alerts' = alertReducer(alerts, action)
             /\ dispatched' = Append(dispatched, action)
    /\ UNCHANGED <<server, req, issuer, social, state, localStorage, app>>

(* ------------------------------ App.js -------------------------------- *)
\* number of renders of App the model follows in one mount
MaxRenders == 3

\* variant: useEffect is called without the dependency array
useEffect_NoDeps(first) == TRUE

\* useEffect(f, []): whether f is scheduled by a render; with no dependencies
\* it is scheduled by the first render of a mount only
useEffect(first) == first

\* variant: setAuthToken is called whatever localStorage holds
AppModule_Always(ls) == <<[fn |-> "setAuthToken", arg |-> ls]>>

\* the statements of the module App.js, run when the page loads: the calls
\* they make, with ls the 'token' entry of localStorage
AppModule(ls) ==
    IF ls # Null THEN <<[fn |-> "setAuthToken", arg |-> ls]>> ELSE <<>>

\* the page is loaded: the modules are evaluated, the store is created from
\* the initial states of the reducers, and App.js runs lines 15-17
Load ==
    /\ ~app.loaded
    /\ state' = initialState(localStorage)
    /\ alerts' = <<>>
    /\ dispatched' = <<>>
    /\ app' = [mounted |-> FALSE, renders |-> 0, pending |-> FALSE, loadUser |-> 0,
               loaded |-> TRUE, boot |-> localStorage,
               calls |-> AppModule(localStorage)]
    /\ UNCHANGED <<server, req, issuer, social, localStorage>>

\* App is rendered: on mount, or again after a change of state or props
Render ==
    /\ app.loaded
    /\ app.renders < MaxRenders
    /\ app' = [app EXCEPT !.mounted = TRUE, !.renders = @ + 1,
                          !.pending = @ \/ useEffect(~app.mounted)]
    /\ UNCHANGED <<server, req, issuer, social, state, localStorage, alerts,
                   dispatched>>

\* the effect scheduled by a render runs: store.dispatch(loadUser())
RunEffect ==
    /\ app.pending
    /\ app' = [app EXCEPT !.pending = FALSE, !.loadUser = @ + 1,
                          !.calls = Append(@, [fn |-> "loadUser", arg |-> Null])]
    /\ UNCHANGED <<server, req, issuer, social, state, localStorage, alerts,
                   dispatched>>

\* App is unmounted: the page is left, and nothing of it stays but localStorage
Unmount ==
    /\ app.mounted
    /\ ~app.pending
    /\ app' = [mounted |-> FALSE, renders |-> 0, pending |-> FALSE, loadUser |-> 0,
               loaded |-> FALSE, boot |-> Null, calls |-> <<>>]
    /\ UNCHANGED <<server, req, issuer, social, state, localStorage, alerts,
                   dispatched>>

(* ---------------- components/routing/PrivateRoute.js ------------------ *)
\* what the render prop of PrivateRoute returns for the auth slice st:
\* !isAuthenticated && !loading ? <Redirect to="/login" /> : <Component />
PrivateRoute(st) ==
    IF st.isAuthenticated # "true" /\ ~st.loading
    THEN "Redirect"
    ELSE "Component"

(* --------------------------- specification ---------------------------- *)
Init ==
    /\ now = 0
    /\ jwtSecret = "s1"
    /\ issued = {}
    /\ users = {}
    /\ nextUser = 1
    /\ profiles = [u \in Ids |-> 0]
    /\ dbUp = TRUE
    /\ req = [r \in Requests |-> IdleReq]
    /\ localStorage = Null
    /\ state = initialState(Null)
    /\ msec = 0
    /\ reg = IdleReg
    /\ emailOf = [u \in Ids |-> "-"]
    /\ posts = <<>>
    /\ nextId = 1
    /\ experience = [u \in Ids |-> <<>>]
    /\ alerts = <<>>
    /\ app = [mounted |-> FALSE, renders |-> 0, pending |-> FALSE, loadUser |-> 0,
              loaded |-> TRUE, boot |-> Null, calls |-> <<>>]
    /\ dispatched = <<>>

Next ==
    \/ \E r \in Solo : Gate(r)
    \/ \E r \in Solo : GetAuth(r)
    \/ \E r \in Solo : DeleteProfile(r)
    \/ \E r \in Solo : DeleteUser(r)
    \/ \E r \in Solo : Finish(r)
    \/ Register
    \/ Tick
    \/ Rotate
    \/ DbToggle

\* the server alone: the client's store stays as it was loaded
Spec == Init /\ [][Next]_vars

\* the server, its store reachable, together with the dispatches on the client
NextAll ==
    \/ \E r \in Solo : Gate(r)
    \/ \E r \in Solo : GetAuth(r)
    \/ \E r \in Solo : DeleteProfile(r)
    \/ \E r \in Solo : DeleteUser(r)
    \/ \E r \in Solo : Finish(r)
    \/ Register
    \/ Tick
    \/ Rotate
    \/ Dispatch

SpecAll == Init /\ [][NextAll]_vars

\* the server with two requests in flight: their callbacks interleave in any
\* order between the awaits of the handlers
NextConc ==
    \/ \E r \in Requests : Gate(r)
    \/ \E r \in Requests : GetAuth(r)
    \/ \E r \in Requests : DeleteProfile(r)
    \/ \E r \in Requests : DeleteUser(r)
    \/ \E r \in Requests : Finish(r)
    \/ Register
    \/ Tick

SpecConc == Init /\ [][NextConc]_vars

\* the server taking requests that carry tokens outside x-auth-token
NextCarried ==
    \/ \E r \in Solo : GateCarried(r)
    \/ \E r \in Solo : GetAuth(r)
    \/ \E r \in Solo : DeleteProfile(r)
    \/ \E r \in Solo : DeleteUser(r)
    \/ \E r \in Solo : Finish(r)
    \/ Register
    \/ Tick
    \/ Rotate

SpecCarried == Init /\ [][NextCarried]_vars

\* the server with handlers that can fail after the middleware let them run
NextThrow ==
    \/ \E r \in Solo : Gate(r)
    \/ \E r \in Solo : GetAuth(r)
    \/ \E r \in Solo : HandlerThrows(r)
    \/ \E r \in Solo : Finish(r)
    \/ Register
    \/ Tick
    \/ Rotate

SpecThrow == Init /\ [][NextThrow]_vars

\* the token issuer: registrations and logins, with the clock in milliseconds
NextIssue ==
    \/ RegArrive
    \/ RegFind
    \/ RegSave
    \/ RegSigned
    \/ RegFinish
    \/ Login
    \/ TickMs
    \/ Rotate
    \/ Misconfigure

SpecIssue == Init /\ [][NextIssue]_vars

\* the server taking requests that write profiles, posts and comments
NextSocial ==
    \/ \E r \in Solo : GateSocial(r)
    \/ \E r \in Solo : CreateProfile(r)
    \/ \E r \in Solo : CreatePost(r)
    \/ \E r \in Solo : AddComment(r)
    \/ \E r \in Solo : DeleteComment(r)
    \/ \E r \in Solo : DeleteProfile(r)
    \/ \E r \in Solo : DeleteUser(r)
    \/ \E r \in Solo : Finish(r)
    \/ Register

SpecSocial == Init /\ [][NextSocial]_vars

\* the server taking requests that write the experience of profiles and that
\* create and remove posts
NextOwned ==
    \/ \E r \in Solo : GateOwned(r)
    \/ \E r \in Solo : CreateProfile(r)
    \/ \E r \in Solo : AddExperience(r)
    \/ \E r \in Solo : DeleteExperience(r)
    \/ \E r \in Solo : CreatePost(r)
    \/ \E r \in Solo : DeletePost(r)
    \/ \E r \in Solo : Finish(r)
    \/ Register

SpecOwned == Init /\ [][NextOwned]_vars

\* the server with two requests in flight on the routes that read a document
\* and then write it: the reads and writes interleave in any order
NextRace ==
    \/ \E r \in Requests : GateRace(r, LikeRoutes)
    \/ \E r \in Requests : CreatePost(r)
    \/ \E r \in Requests : FindPost(r)
    \/ \E r \in Requests : LikePost(r)
    \/ \E r \in Requests : UnlikePost(r)
    \/ \E r \in Requests : Finish(r)
    \/ Register

SpecRace == Init /\ [][NextRace]_vars

\* the same for POST api/profile
NextProfiles ==
    \/ \E r \in Requests : GateRace(r, ProfileRoutes)
    \/ \E r \in Requests : FindProfile(r)
    \/ \E r \in Requests : SaveProfile(r)
    \/ \E r \in Requests : Finish(r)
    \/ Register

SpecProfiles == Init /\ [][NextProfiles]_vars

\* the client: the two reducers and the App component, with the registrations
\* that give it tokens and users
NextClient ==
    \/ Register
    \/ Dispatch
    \/ Load
    \/ Render
    \/ RunEffect
    \/ Unmount

SpecClient == Init /\ [][NextClient]_vars

\* the alert slice of the store and the actions dispatched to it
NextAlerts == DispatchAlert

SpecAlerts == Init /\ [][NextAlerts]_vars

(* ------------------------------ properties ---------------------------- *)
\* the server has run the middleware on request r
Seen(r) == req[r].pc # "idle"

\* token is a JWT whose tag is the HMAC of its own payload under key and whose
\* expiry lies after t
ValidAt(token, key, t) ==
    /\ token.kind = "jwt"
    /\ token.tag = Tag(token.user, token.iat, token.exp, key)
    /\ t < token.exp

\* position of step in log, 0 when it is not there
Pos(log, step) ==
    IF \E n \in 1..Len(log) : log[n] = step
    THEN CHOOSE n \in 1..Len(log) : log[n] = step
    ELSE 0

\* C1: the route handler is invoked (next is called) only for a request whose
\* token the gate accepted, i.e. a non-empty token validly signed under the
\* secret of the moment and unexpired; a request answered 401 never has next
\* called.
Thm_C1 ==
    \A r \in Requests :
        Seen(r) =>
            /\ req[r].nextCalled <=>
                 (~Falsy(req[r].token) /\ ValidAt(req[r].token, req[r].key, req[r].at))
            /\ req[r].status = 401 => ~req[r].nextCalled
            /\ req[r].pc \in {"handler", "remove_user"} => req[r].nextCalled

Wit_C1 == \E r \in Requests : req[r].nextCalled /\ req[r].status = 200

\* C2: round trip: a token issued for id, presented at a time t with
\* iat <= t < exp while the secret is the one it was signed with, is accepted
\* and req.user.id = id.
Thm_C2 ==
    \A r \in Requests : \A i \in issued :
        ( /\ Seen(r)
          /\ req[r].token = i.token
          /\ req[r].key = i.token.tag.key
          /\ i.token.iat <= req[r].at
          /\ req[r].at < i.token.exp )
        => (req[r].nextCalled /\ req[r].user = i.id)

Wit_C2 ==
    \E r \in Requests : \E i \in issued :
        /\ req[r].token = i.token
        /\ req[r].key = i.token.tag.key
        /\ req[r].at = i.token.exp - 1
        /\ req[r].nextCalled
        /\ req[r].user = i.id

\* C3: expiry boundary: an issued token, verified under its own secret, is
\* accepted one second before exp and rejected as expired at every instant after
\* exp; no request is accepted at a time later than the exp of its token.
Thm_C3 ==
    \A r \in Requests :
        Seen(r) =>
            /\ (req[r].token \in Tokens /\ req[r].key = req[r].token.tag.key) =>
                 /\ req[r].at = req[r].token.exp - 1 => req[r].nextCalled
                 /\ req[r].at > req[r].token.exp =>
                      (~req[r].nextCalled /\ req[r].status = 401 /\ req[r].err = "expired")
            /\ req[r].nextCalled => req[r].at <= req[r].token.exp

Wit_C3 ==
    \E r \in Requests :
        /\ req[r].token \in Tokens
        /\ req[r].key = req[r].token.tag.key
        /\ req[r].at = req[r].token.exp + 1
        /\ req[r].status = 401
        /\ req[r].err = "expired"

\* C4: tamper sensitivity: a token made from an issued one by changing the user
\* id, iat or exp while keeping the tag is rejected as invalid and never accepted.
Thm_C4 ==
    \A r \in Requests :
        (Seen(r) /\ \E i \in issued : req[r].token \in Tampered(i.token)) =>
            /\ ~req[r].nextCalled
            /\ req[r].status = 401
            /\ req[r].err = "invalid"
            /\ req[r].user = NoUser

Wit_C4 ==
    \E r \in Requests : \E i \in issued :
        /\ req[r].token \in Tampered(i.token)
        /\ req[r].token.user # i.id
        /\ req[r].key = i.token.tag.key
        /\ req[r].at < i.token.exp
        /\ req[r].status = 401

\* C5: secret sensitivity: a token issued under one secret is rejected by a gate
\* whose secret is another one; after a rotation every token issued under the
\* old secret is rejected.
Thm_C5 ==
    /\ \A r \in Requests :
         (Seen(r) /\ req[r].token \in Tokens /\ req[r].key # req[r].token.tag.key) =>
             (~req[r].nextCalled /\ req[r].status = 401)
    /\ \A i \in issued : \A route \in Routes :
         i.token.tag.key # jwtSecret =>
             LET out == auth(i.token, route, jwtSecret, now)
             IN  ~out.nextCalled /\ out.status = 401

Wit_C5 ==
    \E r \in Requests :
        /\ req[r].token \in Tokens
        /\ req[r].key # req[r].token.tag.key
        /\ req[r].at < req[r].token.exp
        /\ req[r].status = 401

Thm_C7 ==
    \A r \in Requests :
        (Seen(r) /\ req[r].token \in {Absent, Empty}) =>
            /\ req[r].status = 401
            /\ req[r].pc = "done"
            /\ Pos(req[r].log, "verify") = 0
            /\ req[r].err = "none"
            /\ req[r].user = NoUser
            /\ Pos(req[r].log, "set_user") = 0
            /\ ~req[r].nextCalled

Wit_C7 ==
    \E r \in Requests :
        req[r].token = Empty /\ req[r].status = 401 /\ req[r].log = <<"header", "no_token_401">>

\* C8: no partial claim: req.user is set only after jwt.verify has checked the
\* signature and the expiry of the presented token with success; a request
\* answered 401 has req.user unset at every step.
Thm_C8 ==
    \A r \in Requests :
        Seen(r) =>
            /\ (Pos(req[r].log, "set_user") > 0 \/ req[r].user # NoUser) =>
                 /\ Pos(req[r].log, "verify") > 0
                 /\ Pos(req[r].log, "verify") < Pos(req[r].log, "set_user")
                 /\ ValidAt(req[r].token, req[r].key, req[r].at)
                 /\ req[r].user = req[r].token.user
            /\ req[r].status = 401 =>
                 (Pos(req[r].log, "set_user") = 0 /\ req[r].user = NoUser)

Wit_C8 ==
    \E r \in Requests :
        /\ req[r].status = 401
        /\ req[r].token \in Tokens
        /\ req[r].token.tag = Tag(req[r].token.user, req[r].token.iat, req[r].token.exp, req[r].key)
        /\ req[r].at >= req[r].token.exp
        /\ req[r].user = NoUser

\* C9: no revocation: in every state, whatever happened since the issuance
\* (further issuances, dispatches on the client, deletion of the account), an
\* issued token presented before its exp while the secret is the one it was
\* signed with is accepted with the id it was issued for.
Thm_C9 ==
    /\ \A i \in issued : \A route \in Routes :
         (jwtSecret = i.token.tag.key /\ now < i.token.exp) =>
             LET out == auth(i.token, route, jwtSecret, now)
             IN  out.nextCalled /\ out.user = i.id /\ out.status = 0
    /\ \A r \in Requests : \A i \in issued :
         (Seen(r) /\ req[r].token = i.token /\ req[r].key = i.token.tag.key
                  /\ req[r].at < i.token.exp /\ req[r].pc = "handler") =>
             (req[r].nextCalled /\ req[r].user = i.id)

Wit_C9 ==
    \E r \in Requests : \E i \in issued :
        /\ req[r].token = i.token
        /\ req[r].pc = "handler"
        /\ req[r].nextCalled
        /\ i.id \notin users
        /\ \E j \in issued : j.token.iat > i.token.iat
        /\ state.isAuthenticated = "false"
        /\ localStorage = Null

\* C10: stateless verification: a run of the gate changes nothing but the
\* request context and the response, and its outcome is decided by the token,
\* the clock and the secret alone, whatever the identity store holds and
\* whether it is reachable.
Thm_C10 ==
    [][\A r \in Requests :
         (req[r].pc = "idle" /\ req'[r].pc # "idle") =>
            /\ UNCHANGED <<server, client, issuer, social>>
            /\ \A q \in Requests \ {r} : req'[q] = req[q]
            /\ req'[r].nextCalled <=> ValidAt(req'[r].token, jwtSecret, now)
            /\ req'[r].nextCalled => req'[r].user = req'[r].token.user
            /\ ~req'[r].nextCalled => (req'[r].status = 401 /\ req'[r].user = NoUser)]_vars

Wit_C10 ==
    \E r \in Requests :
        /\ req[r].pc = "handler"
        /\ req[r].at = now
        /\ req[r].key = jwtSecret
        /\ ~dbUp
        /\ req[r].user \notin users

\* C12: totality: the gate run on any header value (absent, empty, unparsable,
\* tampered, signed with another secret, expired, valid) ends either accepted
\* (next called, no response sent by the gate) or rejected (401 sent, next not
\* called); no request the server has seen is left with neither outcome.
Thm_C12 ==
    /\ \A r \in Requests :
         Seen(r) =>
            \/ req[r].nextCalled /\ req[r].status # 401
            \/ ~req[r].nextCalled /\ req[r].status = 401 /\ req[r].pc = "done"
    /\ \A h \in Headers(now) : \A route \in Routes :
         LET out == auth(h, route, jwtSecret, now)
         IN  \/ out.nextCalled /\ out.pc = "handler" /\ out.status = 0
             \/ ~out.nextCalled /\ out.pc = "done" /\ out.status = 401

Wit_C12 ==
    \E r \in Requests :
        /\ req[r].pc = "done"
        /\ req[r].status = 401
        /\ req[r].err = "malformed"
        /\ \E h \in Headers(now) : auth(h, req[r].route, jwtSecret, now).nextCalled
        /\ \E h \in Headers(now) : auth(h, req[r].route, jwtSecret, now).err = "expired"
        /\ \E h \in Headers(now) : auth(h, req[r].route, jwtSecret, now).err = "invalid"

\* C13: the response to a rejected non-empty token is the fixed pair (401,
\* "Token is not valid"): it carries no part of the token, and it is the same
\* for every non-empty token the gate rejects, whether unparsable, tampered,
\* signed under another secret or expired.
Thm_C13 ==
    \A r \in Requests :
        (req[r].pc = "done" /\ ~req[r].nextCalled /\ ~Falsy(req[r].token)) =>
            /\ req[r].status = 401
            /\ req[r].msg = MsgInvalid
            /\ req[r].msg # req[r].token.tag.key
            /\ \A h \in Headers(now) : \A route \in Routes :
                 LET other == auth(h, route, jwtSecret, now)
                 IN  (~Falsy(h) /\ ~other.nextCalled) =>
                        (other.status = req[r].status /\ other.msg = req[r].msg)

Wit_C13 ==
    \E r \in Requests :
        /\ req[r].pc = "done"
        /\ req[r].status = 401
        /\ req[r].err = "invalid"
        /\ req[r].token.tag.key = ForeignKey
        /\ \E h \in Headers(now) :
             h # req[r].token /\ auth(h, req[r].route, jwtSecret, now).err = "expired"

\* C11: with two requests in flight and their steps interleaved in any order,
\* each request context holds exactly what the gate gives that request when it
\* runs alone on the same token, secret and instant: the same outcome, the same
\* req.user, and a req.user that is the one of its own token whatever the
\* other request carries.
Thm_C11 ==
    \A r \in Requests :
        Seen(r) =>
            LET alone == auth(req[r].token, req[r].route, req[r].key, req[r].at)
            IN  /\ req[r].nextCalled = alone.nextCalled
                /\ req[r].user = alone.user
                /\ req[r].err = alone.err
                /\ SubSeq(req[r].log, 1, Len(alone.log)) = alone.log
                /\ alone.status = 401 => (req[r].status = 401 /\ req[r].msg = alone.msg)
                /\ req[r].nextCalled => req[r].user = req[r].token.user

Wit_C11 ==
    /\ req["r1"].pc = "remove_user"
    /\ req["r2"].pc = "handler"
    /\ req["r1"].user # NoUser
    /\ req["r2"].user # NoUser
    /\ req["r1"].user # req["r2"].user
    /\ req["r2"].at > req["r1"].at

\* C17: the gate takes the token from the x-auth-token header and from nowhere
\* else: a request without that header is answered 401 and its handler is not
\* called, also when its Authorization header, body or query string carries a
\* token that is validly signed and unexpired; and whatever the request
\* carries elsewhere, the token the gate verifies is the x-auth-token one.
Thm_C17 ==
    \A r \in Requests :
        Seen(r) =>
            /\ req[r].token = req[r].msgIn.xAuthToken
            /\ req[r].msgIn.xAuthToken = Absent =>
                 /\ req[r].status = 401
                 /\ req[r].msg = MsgNoToken
                 /\ req[r].pc = "done"
                 /\ ~req[r].nextCalled
                 /\ req[r].user = NoUser

Wit_C17 ==
    \E r \in Requests :
        /\ req[r].msgIn.xAuthToken = Absent
        /\ ValidAt(req[r].msgIn.authorization, jwtSecret, now)
        /\ req[r].msgIn.authorization.user \in users
        /\ req[r].status = 401
        /\ ~req[r].nextCalled

\* C14: every token issued, at registration or at login, has
\* exp = iat + 360000 with iat the second of the issuance, so its exp is
\* strictly greater than its iat; the token of a registration response too.
Thm_C14 ==
    /\ \A i \in issued :
         /\ i.token.iat = Seconds(i.at)
         /\ i.token.exp = i.token.iat + 360000
         /\ i.token.exp > i.token.iat
    /\ reg.status = 200 =>
         (reg.token \in Tokens /\ reg.token.exp = reg.token.iat + 360000)

Wit_C14 ==
    \E i, j \in issued :
        /\ i.id = j.id
        /\ i.token.iat = 0
        /\ i.token.exp = 360000
        /\ j.token.iat = 1
        /\ j.token.exp = 360001

\* C15, as claimed: two issuances for the same user id (and the one lifetime)
\* made at two different instants give two different tokens, with different
\* integrity tags.
Cex_C15 ==
    \A i, j \in issued :
        (i.id = j.id /\ i.at # j.at) =>
            (i.token # j.token /\ i.token.tag # j.token.tag)

\* C15, amended: two issuances for the same user id made in two different
\* clock seconds give two different tokens, with different integrity tags,
\* because iat, the clock in whole seconds, is part of the signed payload; two
\* issuances for the same id within one second under one secret give the same
\* token.
Thm_C15 ==
    \A i, j \in issued :
        i.id = j.id =>
            /\ Seconds(i.at) # Seconds(j.at) =>
                 (i.token # j.token /\ i.token.tag # j.token.tag)
            /\ (Seconds(i.at) = Seconds(j.at) /\ i.token.tag.key = j.token.tag.key) =>
                 i.token = j.token

Wit_C15 ==
    \E i, j \in issued :
        /\ i.id = j.id
        /\ Seconds(i.at) # Seconds(j.at)
        /\ i.token.tag.key = j.token.tag.key
        /\ i.token # j.token

Cex_C18 ==
    /\ PrivateRoute(state) = "Component" => state.isAuthenticated = "true"
    /\ state.isAuthenticated # "true" => PrivateRoute(state) = "Redirect"

\* C19, as claimed: once DELETE api/profile has answered 200 for user u, the
\* store holds no profile of u, no user record of u and no post authored by u.
Cex_C19 ==
    \A r \in Requests :
        ( /\ req[r].route = "DELETE api/profile"
          /\ req[r].pc = "done"
          /\ req[r].status = 200 ) =>
            /\ profiles[req[r].user] = 0
            /\ req[r].user \notin users
            /\ \A n \in 1..Len(posts) : posts[n].user # req[r].user

\* C20, as claimed: a DELETE api/posts/comment/:id/:comment_id that answers 200
\* removes from the post the comment whose id is comment_id and nothing else:
\* the other comments, those of the same user included, stay in their order.
Cex_C20 ==
    [][\A r \in Requests :
         ( /\ req[r].route = "DELETE api/posts/comment/:id/:comment_id"
           /\ req[r].pc = "handler"
           /\ req'[r].status = 200 ) =>
             LET p == IndexOfId(posts, req[r].params.id)
                 c == IndexOfId(posts[p].comments, req[r].params.comment_id)
             IN  /\ Len(posts') = Len(posts)
                 /\ posts'[p].comments = Splice(posts[p].comments, c)
                 /\ \A n \in 1..Len(posts) : n # p => posts'[n] = posts[n]]_vars

\* C29: the gate checks presence, then parsing, then the signature, then the
\* expiry, and a request fails with the kind of the first check it does not
\* pass: an absent or empty token fails as missing, before jwt.verify runs and
\* never as malformed; a token with a wrong tag fails as invalid also when its
\* exp has passed; expired is the failure of a well-signed token only.
Thm_C29 ==
    \A r \in Requests :
        Seen(r) =>
            LET tok == req[r].token
                signed == tok.tag = Tag(tok.user, tok.iat, tok.exp, req[r].key)
            IN  /\ Falsy(tok) =>
                     /\ req[r].log = <<"header", "no_token_401">>
                     /\ req[r].err = "none"
                     /\ req[r].msg = MsgNoToken
                /\ ~Falsy(tok) =>
                     /\ SubSeq(req[r].log, 1, 2) = <<"header", "verify">>
                     /\ tok.kind # "jwt" => req[r].err = "malformed"
                     /\ (tok.kind = "jwt" /\ ~signed) => req[r].err = "invalid"
                     /\ (tok.kind = "jwt" /\ signed /\ req[r].at >= tok.exp) =>
                            req[r].err = "expired"
                     /\ (tok.kind = "jwt" /\ signed /\ req[r].at < tok.exp) =>
                            req[r].err = "none"

Wit_C29 ==
    \E r \in Requests : \E i \in issued :
        /\ req[r].token \in Tampered(i.token)
        /\ req[r].token.exp = i.token.exp
        /\ req[r].key = i.token.tag.key
        /\ req[r].at > req[r].token.exp
        /\ req[r].err = "invalid"
        /\ req[r].status = 401

\* C30: unforgeability: every request the gate has accepted carried a token
\* that is one of the tokens the issuer produced, signed under the secret the
\* gate verified with, and req.user of the request is set and is the id that
\* token was issued for.
Thm_C30 ==
    \A r \in Requests :
        req[r].nextCalled =>
            /\ req[r].user # NoUser
            /\ \E i \in issued :
                 /\ i.token = req[r].token
                 /\ i.token.tag.key = req[r].key
                 /\ i.id = req[r].user

Wit_C30 ==
    \E r \in Requests :
        /\ req[r].nextCalled
        /\ req[r].key = "s2"
        /\ req[r].user = 2
        /\ \E i \in issued : i.id = 1 /\ i.token.tag.key = "s1"
        /\ \E h \in Headers(now) :
             h.user = 1 /\ h.tag.key = ForeignKey /\ ~auth(h, req[r].route, jwtSecret, now).nextCalled

\* the alerts of seq whose id is not id, in the order of seq
RECURSIVE Without(_, _)
Without(seq, id) ==
    IF seq = <<>> THEN <<>>
    ELSE IF Head(seq).id = id THEN Without(Tail(seq), id)
    ELSE <<Head(seq)>> \o Without(Tail(seq), id)

\* C23: REGISTER_SUCCESS with payload p, dispatched in any state, gives a state
\* with token = p.token, isAuthenticated = true and loading = false, also when
\* p has isAuthenticated or loading keys of its own, and leaves p.token in
\* localStorage 'token'; the user field is as before.
Thm_C23 ==
    \A action \in ClientActions :
        action.type = "REGISTER_SUCCESS" =>
            LET st == authReducer(state, action)
            IN  /\ st.token = action.payload.token
                /\ st.isAuthenticated = "true"
                /\ st.loading = FALSE
                /\ st.user = state.user
                /\ authReducerStorage(localStorage, action) = action.payload.token

Wit_C23 ==
    /\ state.token \in Tokens
    /\ state.isAuthenticated = "true"
    /\ ~state.loading
    /\ state.user = NoUser
    /\ localStorage = state.token
    /\ \E action \in ClientActions :
          /\ action.type = "REGISTER_SUCCESS"
          /\ "loading" \in DOMAIN action.payload
          /\ action.payload.token = state.token

\* C24: REGISTER_FAIL or AUTH_ERROR, dispatched in any state, gives a state with
\* token = null, isAuthenticated = false and loading = false, removes the
\* 'token' entry of localStorage and leaves every other field (user) as it was.
Thm_C24 ==
    \A action \in ClientActions :
        action.type \in {"REGISTER_FAIL", "AUTH_ERROR"} =>
            LET st == authReducer(state, action)
            IN  /\ DOMAIN st = DOMAIN state
                /\ st.token = Null
                /\ st.isAuthenticated = "false"
                /\ st.loading = FALSE
                /\ st.user = state.user
                /\ authReducerStorage(localStorage, action) = Null

Wit_C24 ==
    /\ state.token = Null
    /\ state.isAuthenticated = "false"
    /\ ~state.loading
    /\ state.user # NoUser
    /\ localStorage = Null
    /\ issued # {}

\* C25: SET_ALERT with payload p gives the list of alerts as it was, every
\* alert in its place, with p added as the last element.
Thm_C25 ==
    \A action \in SetAlerts :
        LET st == alertReducer(alerts, action)
        IN  /\ Len(st) = Len(alerts) + 1
            /\ \A n \in 1..Len(alerts) : st[n] = alerts[n]
            /\ st[Len(st)] = action.payload

Wit_C25 ==
    /\ Len(alerts) = 3
    /\ alerts[1] # alerts[2]
    /\ alerts[3].id = alerts[1].id
    /\ alerts[3].msg # alerts[1].msg

\* C26: REMOVE_ALERT with payload id gives a list without any alert of that
\* id, in which the alerts of the other ids are all kept, as they were and in
\* their order; when no alert has the id the list is as before.
Thm_C26 ==
    \A action \in RemoveAlerts :
        LET st == alertReducer(alerts, action)
        IN  /\ \A n \in 1..Len(st) : st[n].id # action.payload
            /\ st = Without(alerts, action.payload)
            /\ (\A n \in 1..Len(alerts) : alerts[n].id # action.payload) => st = alerts

Wit_C26 ==
    /\ Len(alerts) = 3
    /\ alerts[1].id = alerts[3].id
    /\ alerts[2].id # alerts[1].id
    /\ \E action \in RemoveAlerts :
          /\ alertReducer(alerts, action) = <<alerts[2]>>
          /\ alertReducer(alertReducer(alerts, action), action) = <<alerts[2]>>

\* C27: loadUser is dispatched once per mount of App: its effect runs after
\* the first render, and no later render of the mount, whatever changed in the
\* store, dispatches it again.
Thm_C27 ==
    /\ app.loadUser <= 1
    /\ app.pending => (app.mounted /\ app.loadUser = 0)
    /\ (app.mounted /\ ~app.pending) => app.loadUser = 1
    /\ ~app.mounted => app.loadUser = 0

Wit_C27 ==
    /\ app.mounted
    /\ app.renders = 3
    /\ app.loadUser = 1
    /\ state.isAuthenticated = "false"
    /\ ~state.loading

\* C28, as claimed: authReducer handles LOGOUT: dispatched in any state, it
\* gives a state that is not authenticated and whose token is null.
Cex_C28 ==
    \A action \in ClientActions :
        action.type = "LOGOUT" =>
            LET st == authReducer(state, action)
            IN  st.isAuthenticated # "true" /\ st.token = Null

\* C21, as claimed: a DELETE api/profile/experience/:exp_id that answers 200
\* removes from the profile of the caller the entry whose id is exp_id and no
\* other; when no entry has that id, the experience list stays as it was.
Cex_C21 ==
    [][\A r \in Requests :
         ( /\ req[r].route = "DELETE api/profile/experience/:exp_id"
           /\ req[r].pc = "handler"
           /\ req'[r].status = 200 ) =>
             LET mine == experience[req[r].user]
                 e == IndexOfId(mine, req[r].params.exp_id)
             IN  /\ experience'[req[r].user] =
                        IF e = 0 THEN mine ELSE Splice(mine, e)
                 /\ \A u \in Ids : u # req[r].user => experience'[u] = experience[u]]_vars

\* C22: a step removes a post only as DELETE api/posts/:id of a request whose
\* verified user is the author of that post, and it removes that post alone;
\* the route answers a request of another user with 401 'User not authorised'
\* and leaves the posts as they were.
Thm_C22 ==
    [][/\ \A n \in 1..Len(posts) :
             (\A k \in 1..Len(posts') : posts'[k].id # posts[n].id) =>
                 /\ posts' = Splice(posts, n)
                 /\ \E r \in Requests :
                       /\ req[r].route = "DELETE api/posts/:id"
                       /\ req[r].nextCalled
                       /\ req[r].params.id = posts[n].id
                       /\ req[r].user = posts[n].user
                       /\ req'[r].status = 200
       /\ \A r \in Requests :
             ( /\ req[r].route = "DELETE api/posts/:id"
               /\ req[r].pc = "handler"
               /\ req'[r].pc = "done"
               /\ \E n \in 1..Len(posts) :
                     posts[n].id = req[r].params.id /\ posts[n].user # req[r].user ) =>
                 /\ req'[r].status = 401
                 /\ req'[r].msg = "User not authorised"
                 /\ posts' = posts]_vars

Wit_C22 ==
    /\ nextId = 3
    /\ Len(posts) = 1
    /\ \A u \in Ids : experience[u] = <<>>
    /\ \E r \in Requests :
          /\ req[r].route = "DELETE api/posts/:id"
          /\ req[r].pc = "done"
          /\ req[r].status = 401
          /\ req[r].msg = "User not authorised"
          /\ req[r].params.id = posts[1].id
          /\ req[r].user # NoUser
          /\ req[r].user # posts[1].user

\* C31: for one request the middleware either calls next or sends its 401,
\* never both: a request whose handler was reached through next carries no 401
\* step of the middleware, also when that handler failed, and a request that
\* got the 401 of the middleware never had next called.
Thm_C31 ==
    \A r \in Requests :
        Seen(r) =>
            LET sent401 == Pos(req[r].log, "catch_401") > 0
                              \/ Pos(req[r].log, "no_token_401") > 0
            IN  /\ req[r].nextCalled <=> Pos(req[r].log, "next") > 0
                /\ req[r].nextCalled <=> ~sent401
                /\ sent401 => req[r].status = 401 /\ req[r].user = NoUser
                /\ req[r].nextCalled => req[r].status # 401

Wit_C31 ==
    \E r \in Requests :
        /\ req[r].nextCalled
        /\ req[r].pc = "done"
        /\ req[r].status = 500
        /\ req[r].log = <<"header", "verify", "set_user", "next", "error_handler_500">>

\* the payloads of the SET_ALERT actions of h from position i on, in their
\* order, without those whose id is the payload of a later REMOVE_ALERT of h
RECURSIVE Surviving(_, _)
Surviving(h, i) ==
    IF i > Len(h) THEN <<>>
    ELSE (IF /\ h[i].type = "SET_ALERT"
             /\ ~\E j \in (i + 1)..Len(h) :
                   h[j].type = "REMOVE_ALERT" /\ h[j].payload = h[i].payload.id
          THEN <<h[i].payload>>
          ELSE <<>>) \o Surviving(h, i + 1)

\* C39: after any sequence of actions dispatched from the empty list, the
\* alerts are the payloads set so far, in the order they were set, without
\* those whose id a later REMOVE_ALERT carried; an action of a type the reducer
\* does not know leaves the list as it is.
Thm_C39 ==
    /\ alerts = Surviving(dispatched, 1)
    /\ \A action \in OtherActions : alertReducer(alerts, action) = alerts

Wit_C39 ==
    /\ Len(dispatched) = 4
    /\ dispatched[1].type = "SET_ALERT"
    /\ dispatched[2].type = "REGISTER_FAIL"
    /\ dispatched[3].type = "REMOVE_ALERT"
    /\ dispatched[4].type = "SET_ALERT"
    /\ dispatched[1].payload.id = dispatched[3].payload
    /\ dispatched[4].payload.id = dispatched[3].payload
    /\ alerts = <<dispatched[4].payload>>

\* C32, as claimed: in every state reached by USER_LOADED, REGISTER_SUCCESS,
\* REGISTER_FAIL and AUTH_ERROR actions, isAuthenticated = true implies that
\* the token is not null.
Cex_C32 == state.isAuthenticated = "true" => state.token # Null

\* C33: after any sequence of actions, also across reloads of the page, the
\* token of the auth state is the value under 'token' in localStorage, null
\* when there is no such entry.
Thm_C33 == state.token = localStorage

Wit_C33 ==
    /\ app.loaded
    /\ app.boot \in Tokens
    /\ state.token \in Tokens
    /\ state.token # app.boot
    /\ state.token = localStorage
    /\ state.user # NoUser

\* C34, as claimed: in every state reached by auth actions,
\* isAuthenticated = false implies user = null.
Cex_C34 == state.isAuthenticated = "false" => state.user = NoUser

\* C38: when the page loads with a token in localStorage, setAuthToken is
\* called with that token before loadUser is dispatched; when localStorage
\* holds no token, nothing is called before loadUser.
Thm_C38 ==
    app.loaded =>
        LET setCall == [fn |-> "setAuthToken", arg |-> app.boot]
            loadCall == [fn |-> "loadUser", arg |-> Null]
        IN  /\ app.boot # Null =>
                 /\ app.loadUser = 0 => app.calls = <<setCall>>
                 /\ app.loadUser > 0 => app.calls = <<setCall, loadCall>>
            /\ app.boot = Null =>
                 /\ app.loadUser = 0 => app.calls = <<>>
                 /\ app.loadUser > 0 => app.calls = <<loadCall>>

Wit_C38 ==
    /\ app.loaded
    /\ app.boot \in Tokens
    /\ app.loadUser = 1
    /\ app.calls = <<[fn |-> "setAuthToken", arg |-> app.boot],
                     [fn |-> "loadUser", arg |-> Null]>>
    /\ localStorage # app.boot

\* C35: in every reachable state the likes of a post hold at most one entry
\* per user, whatever the interleaving of like and unlike requests, also when
\* two like requests of one user both read the post before either saves.
Thm_C35 ==
    \A p \in 1..Len(posts) : \A n, k \in 1..Len(posts[p].likes) :
        posts[p].likes[n].user = posts[p].likes[k].user => n = k

Wit_C35 ==
    \E p \in 1..Len(posts) : \E r \in Requests :
        /\ posts[p].likes = <<[user |-> req[r].user]>>
        /\ posts[p].v = 1
        /\ req[r].route = "PUT api/posts/like/:id"
        /\ req[r].params.id = posts[p].id
        /\ req[r].doc = [found |-> TRUE, likes |-> <<>>, v |-> 0]
        /\ req[r].pc = "done"
        /\ req[r].status = 500

\* C36, as claimed: in every reachable state the store holds at most one
\* profile document per user id, under every interleaving of POST api/profile
\* requests.
Cex_C36 == \A u \in Ids : profiles[u] <= 1

\* C37, as claimed: a POST api/users request that ends without returning a
\* token (validation error, duplicate email, server error, signing failure)
\* has left no user record in the User collection.
Cex_C37 ==
    (reg.pc \in {"done", "crashed"} /\ reg.token = Absent) => reg.id \notin users

=============================================================================
